---------------------------- MODULE Spec2Model ----------------------------
(***************************************************************************)
(* A model of the resumable OCR-correction pipeline of WXImpactBench       *)
(* (src/Tools/ocr-clean-script.py).                                        *)
(*                                                                         *)
(* Texts are sequences of one-character strings, so that the string        *)
(* functions of the source (strip, split, join, slicing, rfind, replace)   *)
(* are computed character by character as Python computes them.            *)
(***************************************************************************)
EXTENDS Integers, Sequences, FiniteSets, TLC

(***************************************************************************)
(* Bounds of the model.                                                    *)
(***************************************************************************)
\* longest text handed to split_text_to_chunks in SpecSplit
MaxTextLen == 6
\* largest word limit handed to split_text_to_chunks in SpecSplit
MaxLimit == 3
\* longest input chunk handed to call_chatgpt_api in SpecApi
MaxChunkLen == 11
\* the oracle's response is at most this much longer than the input chunk
MaxExtra == 2
\* most characters of an oracle response that are not the letter "a"
MaxMarks == 2
\* most data rows of the input file
MaxRecords == 2
\* most invocations of the script over the same sink and checkpoint files
MaxRuns == 3
\* words per chunk.  The source sets 500 (line 17); the pipeline's behaviour
\* depends only on how many chunks a text yields, so the model scales it down
WORD_LIMIT == 2

(***************************************************************************)
(* Python's string primitives.                                             *)
(***************************************************************************)
\* the characters str.strip() and str.split() treat as whitespace
Whitespace == {" ", "\n", "\r", "\t"}

\* the characters of text.strip("[]\"' ")  (ocr-clean-script.py line 183)
Padding == {"[", "]", "\"", "'", " "}

SeqsUpTo(S, n) == UNION {[1..k -> S] : k \in 0..n}

RECURSIVE lstrip(_, _)
lstrip(s, chars) ==
    IF s = <<>> \/ Head(s) \notin chars THEN s ELSE lstrip(Tail(s), chars)

RECURSIVE rstrip(_, _)
rstrip(s, chars) ==
    IF s = <<>> \/ s[Len(s)] \notin chars THEN s
    ELSE rstrip(SubSeq(s, 1, Len(s) - 1), chars)

\* s.strip(chars); s.strip() is strip(s, Whitespace)
strip(s, chars) == rstrip(lstrip(s, chars), chars)

\* the length of the leading run of non-whitespace characters of s
RECURSIVE WordLen(_)
WordLen(s) ==
    IF s = <<>> \/ Head(s) \in Whitespace THEN 0 ELSE 1 + WordLen(Tail(s))

\* s.split(): the maximal runs of non-whitespace characters, in order
RECURSIVE split(_)
split(s) ==
    LET t == lstrip(s, Whitespace)
        n == WordLen(t)
    IN  IF t = <<>> THEN <<>>
        ELSE <<SubSeq(t, 1, n)>> \o split(SubSeq(t, n + 1, Len(t)))

\* a join that puts the parts together last to first
RECURSIVE join_reversed(_)
join_reversed(parts) ==
    IF parts = <<>> THEN <<>>
    ELSE IF Len(parts) = 1 THEN parts[1]
    ELSE join_reversed(Tail(parts)) \o <<" ">> \o parts[1]

\* ' '.join(parts)
RECURSIVE join(_)
join(parts) ==
    IF parts = <<>> THEN <<>>
    ELSE IF Len(parts) = 1 THEN parts[1]
    ELSE parts[1] \o <<" ">> \o join(Tail(parts))

\* s.rfind(c): the 0-based index of the last occurrence of c in s, or -1
rfind(s, c) ==
    LET hits == {i \in 1..Len(s) : s[i] = c}
    IN  IF hits = {} THEN -1
        ELSE (CHOOSE i \in hits : \A j \in hits : j <= i) - 1

\* s.replace(old, new) for one-character old and new
replace(s, old, new) == [i \in 1..Len(s) |-> IF s[i] = old THEN new ELSE s[i]]

\* s.replace('  ', ' '): one left-to-right pass over non-overlapping matches
RECURSIVE replace_double_space(_)
replace_double_space(s) ==
    IF Len(s) < 2 THEN s
    ELSE IF s[1] = " " /\ s[2] = " "
         THEN <<" ">> \o replace_double_space(SubSeq(s, 3, Len(s)))
         ELSE <<s[1]>> \o replace_double_space(Tail(s))

\* '  ' in s
HasDoubleSpace(s) == \E i \in 1..(Len(s) - 1) : s[i] = " " /\ s[i + 1] = " "

Min(a, b) == IF a <= b THEN a ELSE b

(***************************************************************************)
(* clean_newlines, split_text_to_chunks and the output bounding of         *)
(* call_chatgpt_api.                                                       *)
(***************************************************************************)
\* a single replace where the code loops
collapse_spaces_once(s) == replace_double_space(s)

\* lines 26-27: while '  ' in text: text = text.replace('  ', ' ')
RECURSIVE collapse_spaces(_)
collapse_spaces(s) ==
    IF HasDoubleSpace(s) THEN collapse_spaces(replace_double_space(s)) ELSE s

clean_newlines(text) ==
    strip(collapse_spaces(replace(replace(text, "\n", " "), "\r", " ")), Whitespace)

\* a loop whose slices run one word over
chunk_loop_overlapping(words, limit) ==
    [k \in 1..((Len(words) + limit - 1) \div limit) |->
        join(SubSeq(words, (k - 1) * limit + 1, Min(k * limit + 1, Len(words))))]

\* a loop that stops before a shorter last chunk
chunk_loop_no_tail(words, limit) ==
    [k \in 1..(Len(words) \div limit) |->
        join(SubSeq(words, (k - 1) * limit + 1, k * limit))]

\* the chunks of the loop of lines 115-118, for the words of the text
chunk_loop(words, limit) ==
    [k \in 1..((Len(words) + limit - 1) \div limit) |->
        join(SubSeq(words, (k - 1) * limit + 1, Min(k * limit, Len(words))))]

split_text_to_chunks(text, limit) ==
    LET words == split(text)
    IN  IF Len(words) <= limit THEN <<text>> ELSE chunk_loop(words, limit)

\* a cut that looks for the sentence end before it cuts
truncate_uncut(corrected_text, input_len) ==
    LET last_period == rfind(corrected_text, ".")
    IN  IF 10 * last_period > 8 * input_len
        THEN SubSeq(corrected_text, 1, last_period + 1)
        ELSE SubSeq(corrected_text, 1, input_len)

\* a cut that keeps the end of the response
truncate_keeps_tail(corrected_text, input_len) ==
    SubSeq(corrected_text, Len(corrected_text) - input_len + 1, Len(corrected_text))

\* a cut that goes back to the last period wherever it is
truncate_snaps_always(corrected_text, input_len) ==
    LET cut == SubSeq(corrected_text, 1, input_len)
        last_period == rfind(cut, ".")
    IN  IF last_period >= 0
        THEN SubSeq(cut, 1, last_period + 1)
        ELSE cut

\* lines 94-100: the cut of an over-long response.  last_period > input_len * 0.8
\* is compared in tenths, which is exact for every length
truncate(corrected_text, input_len) ==
    LET cut == SubSeq(corrected_text, 1, input_len)
        last_period == rfind(cut, ".")
    IN  IF 10 * last_period > 8 * input_len
        THEN SubSeq(cut, 1, last_period + 1)
        ELSE cut

\* lines 88-102: what call_chatgpt_api returns for the chunk when the oracle
\* answers with content
call_chatgpt_api(text_chunk, content) ==
    LET corrected_text == strip(content, Whitespace)
        input_len == Len(text_chunk)
        output_len == Len(corrected_text)
    IN  IF output_len > input_len
        THEN strip(truncate(corrected_text, input_len), Whitespace)
        ELSE strip(corrected_text, Whitespace)

(***************************************************************************)
(* The files and the configuration of a run.  A CSV row is the tuple of    *)
(* its fields; a field is a text.                                          *)
(***************************************************************************)
VARIABLES
    source,               \* the data rows of input_file (its header row is row 1)
    sample_limit,         \* --sample: <<>> for None, <<n>> for the integer n
    sink,                 \* the rows of output_file that are on disk
    sink_exists,          \* os.path.exists(output_file)
    outfile,              \* rows written to the open outfile and still in its buffer
    checkpoint,           \* the lines of checkpoint_file, without their "\n"
    progression,          \* the entries of progression_file
    stdout,               \* what the run has printed
    pc,                   \* where the run is
    runs,                 \* invocations started so far
    row_count,
    all_processed_dates,
    date,
    text_chunks,
    processed_chunks,
    oracle_calls,         \* this run's requests to the oracle: <<row_count, i, ok>>
    start,                \* what the run found: sink, checkpoint, abandoned, torn
    last_run,             \* how the previous invocation ended
    abandoned,            \* dates given up on an oracle error, not committed since
    torn                  \* dates cut off mid-record by termination, not committed since

\* the function under check, its arguments, whether it has returned, and what;
\* the exception it has raised ("none" for none) and how often it has invoked
\* the external oracle
VARIABLES fn, args, returned, ret, raised, invocations

\* the loop variable of a function that retries, and what it has done so far:
\* its oracle calls with their outcomes and its sleeps, in order
VARIABLES attempt, events

files == <<sink, sink_exists, outfile, checkpoint, progression, stdout>>
locals == <<row_count, all_processed_dates, date, text_chunks, processed_chunks>>
history == <<oracle_calls, start, last_run, abandoned, torn>>
config == <<source, sample_limit>>
harness == <<fn, args, returned, ret, raised, invocations, attempt, events>>
vars == <<config, files, pc, runs, locals, history, harness>>

\* writer.writerow(["Date", "Text"])
Header == << <<"D", "a", "t", "e">>, <<"T", "e", "x", "t">> >>

\* the keys of the input: date strings, none of them the header's "Date", none
\* with surrounding whitespace
Dates == { <<"1">>, <<"2">> }

\* the Text fields of the input: the "no data" sentinel, a blank field, a
\* one-word text in brackets, a five-word text with a doubled space, and a
\* field of padding only
Texts == { <<"[", "]">>,
           <<" ">>,
           <<"[", "a", "]">>,
           <<"a", " ", "b", " ", "c", " ", " ", "d", " ", "e">>,
           <<"[", " ", "]">> }

SampleLimits == { <<>>, <<0>>, <<1>> }

\* what the oracle may answer for a chunk: the chunk itself, or the chunk with
\* its spaces turned to line breaks and a sentence of its own added
OracleResponses(chunk) ==
    { chunk, <<" ">> \o replace(chunk, " ", "\n") \o <<" ", "x", ".">> }

\* lines 130-132: {line.strip() for line in f if line.strip()}
processed_dates(lines) ==
    {strip(lines[i], Whitespace) : i \in {j \in 1..Len(lines) : strip(lines[j], Whitespace) # <<>>}}

\* lines 137-142: csv.DictReader takes the first row as the field names and
\* yields every later row; the sink's first row is always the header, so
\* row['Date'] is the first field
existing_dates(exists, rows) ==
    IF exists /\ rows # <<>> THEN {rows[i][1] : i \in 2..Len(rows)} ELSE {}

\* a progress set that trusts the checkpoint alone
union_dates_checkpoint_only(processed, existing) == processed

\* line 146: processed_dates.union(existing_dates)
union_dates(processed, existing) == processed \cup existing

\* a run that forgets what it has just committed
add_date_forgotten(dates, d) == dates

\* a run that keeps the newest key alone
add_date_alone(dates, d) == {d}

\* line 234: all_processed_dates.add(date)
add_date(dates, d) == dates \cup {d}

\* a loop that stops after its first chunk
chunks_left_never(i, n) == FALSE

\* line 199: the for loop has a chunk after chunk i of n
chunks_left(i, n) == i < n

\* an except clause that falls through to the write of line 217
after_error_falls_through == "write"

\* an except clause that sends the chunk again
after_error_retries == "correct"

\* an except clause that ends the loop
after_error_stops == "done"

\* line 239: where the except clause goes on
after_error == "row"

\* a test for the sentinel alone
no_data_sentinel_only(text) == strip(text, Whitespace) = <<"[", "]">>

\* line 174
no_data(text) == strip(text, Whitespace) = <<"[", "]">> \/ strip(text, Whitespace) = <<>>

\* line 167: the sample limit is set (not None, not 0) and passed
limit_reached(limit, count) == limit # <<>> /\ limit[1] # 0 /\ count > limit[1] + 1

\* the rows csv.reader yields for input_file
InputRows == <<Header>> \o source

Running == pc \in {"row", "correct", "write", "mark"}

HarnessIdle ==
    /\ fn = "process_file" /\ args = <<>> /\ returned = FALSE /\ ret = <<>>
    /\ raised = "none" /\ invocations = 0
    /\ attempt = 0 /\ events = <<>>

\* the input files: the two dates are interchangeable, so the first row's date
\* is taken to be the first of them
Sources ==
    {rows \in SeqsUpTo(Dates \X Texts, MaxRecords) : rows # <<>> => rows[1][1] = <<"1">>}

Init ==
    /\ source \in Sources
    /\ sample_limit \in SampleLimits
    /\ sink = <<>> /\ sink_exists = FALSE /\ outfile = <<>>
    /\ checkpoint = <<>> /\ progression = <<>> /\ stdout = <<>>
    /\ pc = "init" /\ runs = 0
    /\ row_count = 0 /\ all_processed_dates = {} /\ date = <<>>
    /\ text_chunks = <<>> /\ processed_chunks = <<>>
    /\ oracle_calls = <<>> /\ start = [sink |-> <<>>, checkpoint |-> <<>>]
    /\ last_run = "none" /\ abandoned = {} /\ torn = {}
    /\ HarnessIdle

\* lines 284-285: the banner at the head of the progression file
Banner == <<"OCR CORRECTION PROGRESSION">>

\* a file opened for append where the code opens it for writing
initialize_progression_appending(log) == Append(log, Banner)

\* lines 283-285: open(args.progression_file, 'w') and the banner
initialize_progression(log) == <<Banner>>

\* __main__ lines 282-293 and process_file lines 128-158: the progression file
\* is truncated, the progress set loaded, the sink opened for append (which
\* creates it) and the header written to it if no date was found in it
StartRun ==
    /\ pc \in {"init", "done", "crashed"}
    /\ runs < MaxRuns
    /\ runs' = runs + 1
    /\ progression' = initialize_progression(progression)
    /\ stdout' = <<>>
    /\ all_processed_dates' =
          union_dates(processed_dates(checkpoint), existing_dates(sink_exists, sink))
    /\ sink_exists' = TRUE
    /\ outfile' = IF existing_dates(sink_exists, sink) = {} THEN <<Header>> ELSE <<>>
    /\ row_count' = 0
    /\ date' = <<>> /\ text_chunks' = <<>> /\ processed_chunks' = <<>>
    /\ oracle_calls' = <<>>
    /\ start' = [sink |-> sink, checkpoint |-> checkpoint]
    /\ pc' = "row"
    /\ UNCHANGED <<config, sink, checkpoint, last_run, abandoned, torn, harness>>

\* the end of the loop: both with-blocks close, which flushes the outfile
Close ==
    /\ sink' = sink \o outfile
    /\ outfile' = <<>>
    /\ pc' = "done"
    /\ last_run' = IF \E c \in 1..Len(oracle_calls) : ~oracle_calls[c][3]
                   THEN "failed" ELSE "clean"

\* lines 159-197: one pass of the loop up to the first chunk
NextRow ==
    /\ pc = "row"
    /\ UNCHANGED <<config, sink_exists, checkpoint, runs, all_processed_dates,
                   oracle_calls, start, abandoned, torn, harness>>
    /\ IF row_count = Len(InputRows)
       THEN /\ Close
            /\ UNCHANGED <<progression, stdout, locals>>
       ELSE LET row == InputRows[row_count + 1]
                text == strip(row[2], Padding)
                chunks == split_text_to_chunks(text, WORD_LIMIT)
            IN  /\ row_count' = row_count + 1
                /\ IF row_count' = 1
                   THEN UNCHANGED <<sink, outfile, progression, stdout, pc, date,
                                    text_chunks, processed_chunks, last_run>>
                   ELSE IF limit_reached(sample_limit, row_count')
                   THEN /\ stdout' = Append(stdout, <<"limit">>)
                        /\ Close
                        /\ UNCHANGED <<progression, date, text_chunks, processed_chunks>>
                   ELSE /\ Len(row) = 2
                        /\ date' = row[1]
                        /\ UNCHANGED <<sink, outfile, last_run>>
                        /\ IF no_data(row[2])
                           THEN UNCHANGED <<progression, stdout, pc, text_chunks,
                                            processed_chunks>>
                           ELSE IF row[1] \in all_processed_dates
                           THEN /\ stdout' = Append(stdout, <<"skipping", row[1]>>)
                                /\ UNCHANGED <<progression, pc, text_chunks,
                                               processed_chunks>>
                           ELSE /\ text_chunks' = chunks
                                /\ processed_chunks' = <<>>
                                /\ progression' =
                                      Append(progression, <<"DATE", row[1], Len(chunks)>>)
                                /\ pc' = "correct"
                                /\ UNCHANGED stdout

\* lines 199-215: the oracle answers the next chunk
OracleAnswers ==
    /\ pc = "correct"
    /\ LET i == Len(processed_chunks) + 1
           chunk == text_chunks[i]
       IN  \E content \in OracleResponses(chunk) :
              LET fixed_text == call_chatgpt_api(chunk, content)
              IN  /\ processed_chunks' = Append(processed_chunks, fixed_text)
                  /\ oracle_calls' = Append(oracle_calls, <<row_count, i, TRUE>>)
                  /\ progression' = progression \o
                        << <<"BEFORE", i, Len(text_chunks), chunk>>,
                           <<"AFTER", i, Len(text_chunks), fixed_text>> >>
                  /\ pc' = IF chunks_left(i, Len(text_chunks)) THEN "correct" ELSE "write"
    /\ UNCHANGED <<config, sink, sink_exists, outfile, checkpoint, stdout, runs,
                   row_count, all_processed_dates, date, text_chunks, start,
                   last_run, abandoned, torn, harness>>

\* lines 104-105 and 236-239: the oracle call fails, call_chatgpt_api raises
\* RuntimeError and the loop goes on with the next row
OracleFails ==
    /\ pc = "correct"
    /\ LET i == Len(processed_chunks) + 1
       IN  /\ oracle_calls' = Append(oracle_calls, <<row_count, i, FALSE>>)
           /\ progression' =
                 Append(progression, <<"BEFORE", i, Len(text_chunks), text_chunks[i]>>)
    /\ stdout' = Append(stdout, <<"error", date>>)
    /\ abandoned' = abandoned \cup {date}
    /\ pc' = after_error
    /\ UNCHANGED <<config, sink, sink_exists, outfile, checkpoint, runs, locals,
                   start, last_run, torn, harness>>

\* lines 217-222: the row goes to the outfile's buffer; the write may push any
\* leading part of the buffer to disk (rows are taken to reach the disk whole)
WriteRow ==
    /\ pc = "write"
    /\ LET final_text == clean_newlines(join(processed_chunks))
           buffered == Append(outfile, <<date, final_text>>)
       IN  \E n \in 0..Len(buffered) :
              /\ sink' = sink \o SubSeq(buffered, 1, n)
              /\ outfile' = SubSeq(buffered, n + 1, Len(buffered))
    /\ abandoned' = abandoned \ {date}
    /\ torn' = torn \ {date}
    /\ pc' = "mark"
    /\ UNCHANGED <<config, sink_exists, checkpoint, progression, stdout, runs,
                   locals, oracle_calls, start, last_run, harness>>

\* lines 224-234: the completion marker, the checkpoint entry (written and
\* closed at once) and the progress set
MarkComplete ==
    /\ pc = "mark"
    /\ progression' = Append(progression, <<"COMPLETE", date>>)
    /\ checkpoint' = Append(checkpoint, date)
    /\ all_processed_dates' = add_date(all_processed_dates, date)
    /\ pc' = "row"
    /\ UNCHANGED <<config, sink, sink_exists, outfile, stdout, runs, row_count,
                   date, text_chunks, processed_chunks, history, harness>>

\* the process's memory is gone once it has ended
Forgotten ==
    /\ row_count' = 0 /\ all_processed_dates' = {} /\ date' = <<>>
    /\ text_chunks' = <<>> /\ processed_chunks' = <<>>

\* the process is killed anywhere in lines 149-239: what the outfile's buffer
\* holds is lost, the files stay as they are on disk
Terminate ==
    /\ Running
    /\ outfile' = <<>>
    /\ pc' = "crashed"
    /\ last_run' = "crashed"
    /\ torn' = IF pc = "correct" /\ processed_chunks # <<>>
               THEN torn \cup {date} ELSE torn
    /\ Forgotten
    /\ UNCHANGED <<config, sink, sink_exists, checkpoint, progression, stdout, runs,
                   oracle_calls, start, abandoned, harness>>

\* KeyboardInterrupt anywhere in lines 149-239: no handler catches it, and the
\* with-block flushes the outfile as the exception leaves it
Interrupt ==
    /\ Running
    /\ sink' = sink \o outfile
    /\ outfile' = <<>>
    /\ pc' = "crashed"
    /\ last_run' = "crashed"
    /\ torn' = IF pc = "correct" /\ processed_chunks # <<>>
               THEN torn \cup {date} ELSE torn
    /\ Forgotten
    /\ UNCHANGED <<config, sink_exists, checkpoint, progression, stdout, runs,
                   oracle_calls, start, abandoned, harness>>

Next == StartRun \/ NextRow \/ OracleAnswers \/ OracleFails \/ WriteRow
           \/ MarkComplete \/ Terminate \/ Interrupt

Spec == Init /\ [][Next]_vars

(***************************************************************************)
(* SpecFaults: one run over input files that may hold rows without the two *)
(* fields, on a file system whose writes may fail.                         *)
(***************************************************************************)
\* rows of one field and of three
Malformed == { << <<"2">> >>, << <<"2">>, <<"[", "a", "]">>, <<"x">> >> }

FaultSources == SeqsUpTo((Dates \X Texts) \cup Malformed, MaxRecords)

InitFaults ==
    /\ source \in FaultSources
    /\ sample_limit \in SampleLimits
    /\ sink = <<>> /\ sink_exists = FALSE /\ outfile = <<>>
    /\ checkpoint = <<>> /\ progression = <<>> /\ stdout = <<>>
    /\ pc = "init" /\ runs = 0
    /\ row_count = 0 /\ all_processed_dates = {} /\ date = <<>>
    /\ text_chunks = <<>> /\ processed_chunks = <<>>
    /\ oracle_calls = <<>> /\ start = [sink |-> <<>>, checkpoint |-> <<>>]
    /\ last_run = "none" /\ abandoned = {} /\ torn = {}
    /\ HarnessIdle

FirstRun == runs = 0 /\ StartRun

\* an except clause for every exception
handled_any(kind) == TRUE

\* line 236: except RuntimeError
handled(kind) == kind = "RuntimeError"

\* an exception leaves process_file at input row rc: the traceback is printed
\* and the process ends
Uncaught(kind, where, rc) ==
    /\ stdout' = Append(stdout, <<"Traceback", kind, where, rc>>)
    /\ pc' = "crashed"
    /\ last_run' = "crashed"
    /\ torn' = IF pc = "correct" /\ (processed_chunks # <<>> \/ where = "after")
               THEN torn \cup {date} ELSE torn
    /\ Forgotten

\* lines 236-239: the except clause prints and the loop goes on
Caught(kind, where, rc) ==
    /\ stdout' = Append(stdout, <<"caught", kind, where, rc>>)
    /\ pc' = "row"
    /\ UNCHANGED <<last_run, torn, all_processed_dates, text_chunks, processed_chunks>>

\* the with-blocks of lines 149 and 155 close as the exception passes
Flushed == sink' = sink \o outfile /\ outfile' = <<>>

\* line 171: date, text = row raises ValueError, outside the try block
MalformedRow ==
    /\ pc = "row"
    /\ row_count >= 1 /\ row_count < Len(InputRows)
    /\ ~limit_reached(sample_limit, row_count + 1)
    /\ Len(InputRows[row_count + 1]) # 2
    /\ Uncaught("ValueError", "row", row_count + 1)
    /\ Flushed
    /\ UNCHANGED <<config, sink_exists, checkpoint, progression, runs, oracle_calls,
                   start, abandoned, harness>>

\* lines 193, 203, 211 and 225: a write to the progression file raises OSError
\* (or TypeError, when progression_file is None) inside the try block
ProgressionFails ==
    /\ \/ /\ pc = "row"
          /\ row_count >= 1 /\ row_count < Len(InputRows)
          /\ ~limit_reached(sample_limit, row_count + 1)
          /\ LET row == InputRows[row_count + 1]
             IN  /\ Len(row) = 2
                 /\ ~no_data(row[2])
                 /\ row[1] \notin all_processed_dates
                 /\ IF handled("OSError")
                    THEN /\ Caught("OSError", "start", row_count + 1)
                         /\ row_count' = row_count + 1 /\ date' = row[1]
                         /\ UNCHANGED <<sink, outfile>>
                    ELSE Uncaught("OSError", "start", row_count + 1) /\ Flushed
          /\ UNCHANGED <<progression, oracle_calls>>
       \/ /\ pc = "correct"
          /\ IF handled("OSError")
             THEN /\ Caught("OSError", "before", row_count)
                  /\ UNCHANGED <<sink, outfile, row_count, date>>
             ELSE Uncaught("OSError", "before", row_count) /\ Flushed
          /\ UNCHANGED <<progression, oracle_calls>>
       \/ /\ pc = "correct"
          /\ LET i == Len(processed_chunks) + 1
             IN  /\ oracle_calls' = Append(oracle_calls, <<row_count, i, TRUE>>)
                 /\ progression' =
                       Append(progression, <<"BEFORE", i, Len(text_chunks), text_chunks[i]>>)
          /\ IF handled("OSError")
             THEN /\ Caught("OSError", "after", row_count)
                  /\ UNCHANGED <<sink, outfile, row_count, date>>
             ELSE Uncaught("OSError", "after", row_count) /\ Flushed
       \/ /\ pc = "mark"
          /\ IF handled("OSError")
             THEN /\ Caught("OSError", "complete", row_count)
                  /\ UNCHANGED <<sink, outfile, row_count, date>>
             ELSE Uncaught("OSError", "complete", row_count) /\ Flushed
          /\ UNCHANGED <<progression, oracle_calls>>
    /\ UNCHANGED <<config, sink_exists, checkpoint, runs, start, abandoned, harness>>

\* line 221: writer.writerow raises OSError; what the buffer held may have
\* reached the disk in part
SinkWriteFails ==
    /\ pc = "write"
    /\ IF handled("OSError")
       THEN /\ Caught("OSError", "sink", row_count)
            /\ UNCHANGED <<sink, outfile, row_count, date>>
       ELSE /\ Uncaught("OSError", "sink", row_count)
            /\ \E n \in 0..Len(outfile) : sink' = sink \o SubSeq(outfile, 1, n)
            /\ outfile' = <<>>
    /\ UNCHANGED <<config, sink_exists, checkpoint, progression, runs, oracle_calls,
                   start, abandoned, harness>>

\* lines 229-231: the completion marker is written, then the open or the write
\* of the checkpoint file raises OSError
CheckpointWriteFails ==
    /\ pc = "mark"
    /\ progression' = Append(progression, <<"COMPLETE", date>>)
    /\ IF handled("OSError")
       THEN /\ Caught("OSError", "checkpoint", row_count)
            /\ UNCHANGED <<sink, outfile, row_count, date>>
       ELSE Uncaught("OSError", "checkpoint", row_count) /\ Flushed
    /\ UNCHANGED <<config, sink_exists, checkpoint, runs, oracle_calls, start,
                   abandoned, harness>>

NextFaults ==
    \/ FirstRun \/ NextRow \/ OracleAnswers \/ OracleFails \/ WriteRow \/ MarkComplete
    \/ MalformedRow \/ ProgressionFails \/ SinkWriteFails \/ CheckpointWriteFails

SpecFaults == InitFaults /\ [][NextFaults]_vars

(***************************************************************************)
(* The properties.                                                         *)
(***************************************************************************)
\* how many rows (or lines) of a file carry the date
RowsOf(d, rows) == Cardinality({i \in 1..Len(rows) : rows[i][1] = d})
LinesOf(d, lines) == Cardinality({i \in 1..Len(lines) : lines[i] = d})

\* every row handed to the sink so far, on disk or still buffered
Written == sink \o outfile

\* the rows and lines this run has added to what it found
NewRows == SubSeq(Written, Len(start.sink) + 1, Len(Written))
NewLines == SubSeq(checkpoint, Len(start.checkpoint) + 1, Len(checkpoint))

\* the dates a file holds, read off the file itself
DatesInRows(rows) == {rows[i][1] : i \in 2..Len(rows)}
DatesInLines(lines) == {lines[i] : i \in 1..Len(lines)}

\* this run's oracle requests for one input row: the chunk indexes, in order
RECURSIVE CallsFor(_, _)
CallsFor(calls, rc) ==
    IF calls = <<>> THEN <<>>
    ELSE IF calls[1][1] = rc THEN <<calls[1][2]>> \o CallsFor(Tail(calls), rc)
    ELSE CallsFor(Tail(calls), rc)

FailedCalls == {c \in 1..Len(oracle_calls) : ~oracle_calls[c][3]}

\* the Text field is "[]" or blank
IsNoData(text) ==
    \/ \A i \in 1..Len(text) : text[i] \in Whitespace
    \/ \E i \in 1..Len(text) :
          /\ i < Len(text) /\ text[i] = "[" /\ text[i + 1] = "]"
          /\ \A j \in 1..Len(text) : j \notin {i, i + 1} => text[j] \in Whitespace

\* the records of the source a run is to correct: with text, and within the
\* sample limit
Eligible(i) ==
    ~IsNoData(source[i][2]) /\ ~limit_reached(sample_limit, i + 1)

\* every eligible record whose date the run found neither in the sink nor in
\* the checkpoint has its date in one row of the sink and one checkpoint line
PendingCommittedOnce ==
    \A i \in 1..Len(source) :
        (/\ Eligible(i)
         /\ RowsOf(source[i][1], start.sink) = 0
         /\ LinesOf(source[i][1], start.checkpoint) = 0) =>
            RowsOf(source[i][1], sink) = 1 /\ LinesOf(source[i][1], checkpoint) = 1

\* C1 (idempotent resume, no duplicates): whatever runs, oracle outcomes and
\* terminations came before, and also when the source repeats a date, no date
\* is in more than one data row of the sink and none is more than once in the
\* checkpoint.
C1_NoDuplicates ==
    \A d \in Dates : RowsOf(d, Written) <= 1 /\ LinesOf(d, checkpoint) <= 1

\* a second run has completed over a source that repeats a date in two
\* records with text, and the date is in the sink and the checkpoint once
C1_Witness ==
    /\ pc = "done" /\ runs >= 2
    /\ Len(source) = 2 /\ source[1][1] = source[2][1]
    /\ ~IsNoData(source[1][2]) /\ ~IsNoData(source[2][2])
    /\ RowsOf(source[1][1], sink) = 1 /\ LinesOf(source[1][1], checkpoint) = 1

\* C2 (idempotent resume, no rework): in a run that follows a run which
\* completed without any oracle failure, the oracle is never called and
\* nothing is added to the sink or to the checkpoint.
C2_SecondRunDoesNothing ==
    (Running /\ last_run = "clean") =>
        /\ oracle_calls = <<>>
        /\ Written = start.sink
        /\ checkpoint = start.checkpoint

\* C3 (sink before checkpoint, under termination): once a run has been
\* terminated, every date in the checkpoint file has its row in the sink
\* file, so that no committed record is lost.
C3_CheckpointNeverAhead ==
    pc = "crashed" => DatesInLines(checkpoint) \subseteq DatesInRows(sink)

\* The parts of C4.  A date cut off mid-record by termination has no row in
\* the sink and no checkpoint entry until a record of it is corrected anew.
C4_NoTrace ==
    \A d \in torn : RowsOf(d, Written) = 0 /\ LinesOf(d, checkpoint) = 0

\* A row is written only when this run has sent every chunk of its record to
\* the oracle, in order from the first, and each was answered.
C4_FromTheFirstChunk ==
    pc = "write" =>
        LET text == strip(source[row_count - 1][2], Padding)
            n == IF Len(split(text)) <= WORD_LIMIT THEN 1
                 ELSE (Len(split(text)) + WORD_LIMIT - 1) \div WORD_LIMIT
        IN  /\ CallsFor(oracle_calls, row_count) = [i \in 1..n |-> i]
            /\ Len(processed_chunks) = n

\* A run that completes with a healthy oracle leaves no date cut off: every
\* record it found without row and entry, as a date cut off is, is in the sink
\* and in the checkpoint, once.
C4_Redone ==
    (pc = "done" /\ last_run = "clean") => torn = {} /\ PendingCommittedOnce

\* The write of a date that was cut off leaves it in one row.
C4_CommittedOnce ==
    (pc = "write" /\ pc' = "mark" /\ date \in torn) =>
        RowsOf(date, sink' \o outfile') = 1

\* C4 (partial-run safety): a record cut off by termination after some of its
\* chunks leaves no row, partial or full, and no checkpoint entry; a later run
\* sends all its chunks to the oracle again from the first, and with a healthy
\* oracle commits it to the sink exactly once.
C4_PartialRunSafety ==
    /\ [](C4_NoTrace /\ C4_FromTheFirstChunk /\ C4_Redone)
    /\ [][C4_CommittedOnce]_vars

\* a later run has sent the three chunks of a record that was cut off to the
\* oracle again, from the first, and is about to write its row
C4_Witness ==
    /\ pc = "write" /\ runs >= 2 /\ date \in torn
    /\ CallsFor(oracle_calls, row_count) = <<1, 2, 3>>
    /\ FailedCalls = {} /\ date \notin abandoned

\* The parts of C5.  A date given up on an oracle error has no row, no
\* checkpoint entry and is not in the progress set until a record of it is
\* committed.
C5_Pending ==
    \A d \in abandoned :
        /\ RowsOf(d, Written) = 0 /\ LinesOf(d, checkpoint) = 0
        /\ Running => d \notin all_processed_dates

\* No row is written for a record one of whose oracle calls failed in this run.
C5_OnlyWholeRecords ==
    pc \in {"write", "mark"} =>
        \A c \in FailedCalls : oracle_calls[c][1] # row_count

\* A run that completes with a healthy oracle leaves no date given up: every
\* record it found without row and entry, as a date given up is, is in the
\* sink and in the checkpoint, once.
C5_Retried ==
    (pc = "done" /\ last_run = "clean") => abandoned = {} /\ PendingCommittedOnce

\* The step in which an oracle call fails changes neither sink nor checkpoint
\* nor progress set.
C5_FailureWritesNothing ==
    (Len(oracle_calls') > Len(oracle_calls) /\ ~oracle_calls'[Len(oracle_calls')][3]) =>
        /\ UNCHANGED <<sink, outfile, checkpoint, all_processed_dates>>
        /\ date \in abandoned'

\* C5 (no partial commit on oracle failure): when the oracle fails for a chunk
\* of a record, the run leaves no row and no checkpoint entry for it, the
\* record stays pending, and a later run whose oracle succeeds commits it.
C5_NoPartialCommit ==
    /\ [](C5_Pending /\ C5_OnlyWholeRecords /\ C5_Retried)
    /\ [][C5_FailureWritesNothing]_vars

\* a later run, its oracle healthy, has had the three chunks of a record
\* corrected that an earlier run gave up on an oracle error, and is about to
\* write its row
C5_Witness ==
    /\ pc = "write" /\ runs >= 2 /\ date \in abandoned /\ date \notin torn
    /\ CallsFor(oracle_calls, row_count) = <<1, 2, 3>>
    /\ FailedCalls = {}

\* C6 (dual-source completion): a run starts with the union of the dates of
\* the checkpoint and the dates of the sink's rows as its progress set, and
\* for a date found in only one of the two it calls no oracle, writes no row
\* and adds no checkpoint entry.
C6_OneSourceOnly ==
    (DatesInLines(start.checkpoint) \ DatesInRows(start.sink))
        \cup (DatesInRows(start.sink) \ DatesInLines(start.checkpoint))

C6_DualSource ==
    (Running \/ pc = "done") =>
        /\ row_count = 0 =>
              all_processed_dates =
                  DatesInLines(start.checkpoint) \cup DatesInRows(start.sink)
        /\ \A d \in C6_OneSourceOnly :
              /\ \A c \in 1..Len(oracle_calls) : InputRows[oracle_calls[c][1]][1] # d
              /\ RowsOf(d, NewRows) = 0
              /\ LinesOf(d, NewLines) = 0

\* a run has completed that found one date only in the checkpoint and another
\* only in the sink, both of records with text
C6_Witness ==
    /\ pc = "done" /\ Len(source) = 2 /\ sample_limit = <<>>
    /\ ~IsNoData(source[1][2]) /\ ~IsNoData(source[2][2])
    /\ source[1][1] \in DatesInLines(start.checkpoint) \ DatesInRows(start.sink)
    /\ source[2][1] \in DatesInRows(start.sink) \ DatesInLines(start.checkpoint)

\* C7 (length ceiling): whatever the oracle answers, shorter than the chunk,
\* as long or longer, the text call_chatgpt_api returns has at most as many
\* characters as the chunk.
C7_LengthCeiling ==
    (fn = "call_chatgpt_api" /\ returned) => Len(ret) <= Len(args.text_chunk)

\* the answer was longer than the chunk, and the cut was moved back to the
\* period just before the chunk's length
C7_Witness ==
    /\ fn = "call_chatgpt_api" /\ returned
    /\ Len(args.text_chunk) >= 2
    /\ Len(args.content) > Len(args.text_chunk)
    /\ args.content[Len(args.text_chunk)] = "a"
    /\ Len(ret) = Len(args.text_chunk) - 1
    /\ ret[Len(ret)] = "."

\* the words of a text, and the text with one space between its words
Normalized(text) == join(split(text))

\* C8 as the specification states it: the chunks joined with single spaces
\* are the whitespace-normalized text, also when a single chunk is returned.
C8_JoinIsNormalized ==
    (fn = "split_text_to_chunks" /\ returned) => join(ret) = Normalized(args.text)

\* C8 (reconstruction), amended: the chunks joined with single spaces have the
\* words of the text, in order; the join is the whitespace-normalized text
\* when the text has more words than the limit, and otherwise the single chunk
\* is the text as it was given, its whitespace untouched.
C8_Reconstruction ==
    (fn = "split_text_to_chunks" /\ returned) =>
        /\ split(join(ret)) = split(args.text)
        /\ Len(split(args.text)) > args.limit => join(ret) = Normalized(args.text)
        /\ Len(split(args.text)) <= args.limit => ret = <<args.text>>

\* a text of irregular whitespace was split into several chunks
C8_Witness ==
    /\ fn = "split_text_to_chunks" /\ returned
    /\ Len(ret) >= 2 /\ args.limit >= 2
    /\ args.text # Normalized(args.text)

\* C9 (chunk bound): every chunk has at most limit words, every chunk but the
\* last has exactly limit words, and a text of at most limit words (none
\* included) gives exactly one chunk.
C9_ChunkBound ==
    (fn = "split_text_to_chunks" /\ returned) =>
        /\ \A k \in 1..Len(ret) : Len(split(ret[k])) <= args.limit
        /\ \A k \in 1..(Len(ret) - 1) : Len(split(ret[k])) = args.limit
        /\ Len(split(args.text)) <= args.limit => Len(ret) = 1

\* a text of three words was split at limit two: a full chunk and a shorter
\* last one
C9_Witness ==
    /\ fn = "split_text_to_chunks" /\ returned
    /\ args.limit = 2 /\ Len(ret) = 2
    /\ Len(split(ret[1])) = 2 /\ Len(split(ret[2])) = 1

\* The parts of C10.  The pass of the loop over a record whose text is "[]" or
\* blank (a record the run reaches: the sample limit has not ended the loop
\* before it) writes nothing to sink, checkpoint or progression file, calls no
\* oracle, prints nothing (so never "already processed"), leaves the progress
\* set alone and moves on to the next row.
C10_SkipStep ==
    (pc = "row" /\ pc' # "crashed" /\ row_count >= 1
        /\ row_count < Len(InputRows) /\ IsNoData(InputRows[row_count + 1][2])
        /\ ~limit_reached(sample_limit, row_count + 1)) =>
        /\ UNCHANGED <<sink, outfile, checkpoint, progression, stdout,
                       all_processed_dates, oracle_calls>>
        /\ pc' = "row" /\ row_count' = row_count + 1

\* No oracle request is for such a record.
C10_NeverSent ==
    \A c \in 1..Len(oracle_calls) : ~IsNoData(InputRows[oracle_calls[c][1]][2])

\* C10 (no-data skip leaves no trace): a record whose text is "[]" or blank is
\* skipped without oracle call, sink row, checkpoint entry or entry in the
\* progress set, in every run, and is never reported as already processed.
C10_NoDataSkip == []C10_NeverSent /\ [][C10_SkipStep]_vars

\* a third run has passed a "[]" record whose date is in the progress set
\* (another record of that date was committed), without a word
C10_Witness ==
    /\ pc = "row" /\ runs = 3 /\ row_count = 3 /\ stdout = <<>>
    /\ source[2][2] = <<"[", "]">> /\ source[2][1] \in all_processed_dates

\* C11 (sample limit): with a sample limit N configured, N = 0 included, no
\* record at a source position beyond N is sent to the oracle, written to the
\* sink or added to the checkpoint.  (Input row r + 1 holds the record at
\* position r; the rows and lines of this run are those of the records it
\* committed, in order.)
C11_Beyond(N) == {source[i][1] : i \in {j \in 1..Len(source) : j > N}}
                    \ {source[i][1] : i \in {j \in 1..Len(source) : j <= N}}

C11_SampleLimit ==
    (sample_limit # <<>> /\ (Running \/ pc = "done")) =>
        /\ \A c \in 1..Len(oracle_calls) : oracle_calls[c][1] - 1 <= sample_limit[1]
        /\ \A d \in C11_Beyond(sample_limit[1]) :
              RowsOf(d, NewRows) = 0 /\ LinesOf(d, NewLines) = 0

\* C12 (single header): once the sink holds anything, it holds exactly one
\* header row, and that is its first row, whatever runs came before.
C12_SingleHeader ==
    Written # <<>> =>
        /\ Written[1] = Header
        /\ Cardinality({i \in 1..Len(Written) : Written[i] = Header}) = 1

\* the run was ended by an exception of this kind raised at one of these places
Raised(kind, places) ==
    \E k \in 1..Len(stdout) :
        stdout[k][1] = "Traceback" /\ stdout[k][2] = kind /\ stdout[k][3] \in places

\* C13 (malformed record is skipped, not fatal): no run is ended by a source
\* row that lacks the two fields; the row is passed over and the run goes on.
C13_MalformedSkipped == ~Raised("ValueError", {"row"})

\* C14 (progression-log failure is non-fatal): no run is ended by a failing
\* write to the progression file, at the record start, before or after a
\* chunk or at the completion marker.
C14_ProgressionNonFatal ==
    ~Raised("OSError", {"start", "before", "after", "complete"})

\* C15 (persistence failure is fatal): when the write of a row to the sink or
\* of a date to the checkpoint fails, the except clause does not swallow it:
\* the run ends there, the record gets no checkpoint entry, and no later
\* record is sent to the oracle or committed.
C15_PersistenceFatal ==
    \A k \in 1..Len(stdout) :
        (stdout[k][1] \in {"Traceback", "caught"}
            /\ stdout[k][3] \in {"sink", "checkpoint"}) =>
            /\ stdout[k][1] = "Traceback"
            /\ k = Len(stdout)
            /\ pc = "crashed"
            /\ \A c \in 1..Len(oracle_calls) : oracle_calls[c][1] <= stdout[k][4]
            /\ LinesOf(InputRows[stdout[k][4]][1], NewLines) = 0
            /\ Len(NewLines) <= stdout[k][4] - 2

\* the checkpoint write failed for the first of two records with text: its
\* row is in the sink, the checkpoint is empty, the second was never sent
C15_Witness ==
    /\ pc = "crashed" /\ Raised("OSError", {"checkpoint"})
    /\ Len(source) = 2 /\ Len(source[2]) = 2 /\ ~IsNoData(source[2][2])
    /\ source[1][1] # source[2][1] /\ sample_limit = <<>>
    /\ RowsOf(source[1][1], sink) = 1 /\ checkpoint = <<>>
    /\ \A c \in 1..Len(oracle_calls) : oracle_calls[c][1] = 2

\* C16 as the specification states it: a record is given up only after the
\* failed chunk was sent again, so no record is left after a single failed
\* attempt.
C16_RetriedBeforeAbandon ==
    \A c \in FailedCalls :
        (pc \in {"row", "done"}) =>
            \E r \in 1..Len(oracle_calls) :
                /\ r # c
                /\ oracle_calls[r][1] = oracle_calls[c][1]
                /\ oracle_calls[r][2] = oracle_calls[c][2]

\* C16 (oracle failures and retries), amended: the pipeline makes a single
\* attempt.  Within a run no chunk is sent to the oracle twice; the first
\* failed call of a record is its last call in that run, the record is left
\* at once and the run goes on with the next row.
C16_SingleAttempt ==
    /\ \A c, r \in 1..Len(oracle_calls) :
          (c # r /\ oracle_calls[c][1] = oracle_calls[r][1]) =>
              oracle_calls[c][2] # oracle_calls[r][2]
    /\ \A c \in FailedCalls :
          /\ \A r \in (c + 1)..Len(oracle_calls) : oracle_calls[r][1] > oracle_calls[c][1]
          /\ Running => ~(pc # "row" /\ row_count = oracle_calls[c][1])

\* the first call for a record of three chunks failed once; the run went on
\* and ended without another call for that record
C16_Witness ==
    /\ pc = "done" /\ Len(source) = 1
    /\ oracle_calls = << <<2, 1, FALSE>> >>
    /\ Len(split(strip(source[1][2], Padding))) > WORD_LIMIT
    /\ source[1][1] \in abandoned
    /\ RowsOf(source[1][1], sink) = 0 /\ checkpoint = <<>>

\* an oracle call of this run for input row rc has failed
FailedAt(rc) ==
    \E c \in 1..Len(oracle_calls) : oracle_calls[c][1] = rc /\ ~oracle_calls[c][3]

\* a run that has ended by itself has looked at every row, or has met the
\* sample limit
AllExamined ==
    row_count = Len(InputRows) \/ limit_reached(sample_limit, row_count)

\* C18 (failure isolation): an oracle failure at record k does not stop the
\* run. A run ends by itself only once every row is examined or the sample
\* limit is met, and every eligible record after k that was not complete when
\* it was reached and whose oracle calls all succeeded has one new row in the
\* sink and one new checkpoint line, both added by this same run.
C18_CommittedAfterFailure ==
    pc = "done" =>
        /\ AllExamined
        /\ \A k \in 1..Len(source) : \A i \in (k + 1)..Len(source) :
              (/\ FailedAt(k + 1)
               /\ Eligible(i)
               /\ RowsOf(source[i][1], start.sink) = 0
               /\ LinesOf(source[i][1], start.checkpoint) = 0
               /\ ~FailedAt(i + 1)) =>
                  /\ RowsOf(source[i][1], NewRows) = 1
                  /\ LinesOf(source[i][1], NewLines) = 1
                  /\ \/ CallsFor(oracle_calls, i + 1) # <<>>
                     \/ \E j \in 1..(i - 1) :
                           /\ source[j][1] = source[i][1]
                           /\ CallsFor(oracle_calls, j + 1) # <<>>
                           /\ ~FailedAt(j + 1)

\* the first record's oracle call failed, and the run went on to correct and
\* commit the second record before it ended
C18_Witness ==
    /\ pc = "done" /\ Len(source) = 2
    /\ FailedAt(2) /\ ~FailedAt(3)
    /\ CallsFor(oracle_calls, 3) # <<>>
    /\ source[1][1] # source[2][1]
    /\ RowsOf(source[2][1], NewRows) = 1 /\ LinesOf(source[2][1], NewLines) = 1
    /\ RowsOf(source[1][1], Written) = 0

\* the chunks of the record in input row rc, and the chunk indexes this run
\* has sent to the oracle for it
ChunksOf(rc) == split_text_to_chunks(strip(InputRows[rc][2], Padding), WORD_LIMIT)
SentFor(rc) == CallsFor(oracle_calls, rc)

\* the progression log's AFTER entries of the record the run is at
AftersOfRecord ==
    LET last == CHOOSE c \in 1..Len(progression) :
                    /\ progression[c][1] = "DATE"
                    /\ \A d \in (c + 1)..Len(progression) : progression[d][1] # "DATE"
    IN  SelectSeq(SubSeq(progression, last + 1, Len(progression)),
                  LAMBDA e : e[1] = "AFTER")

\* the texts one after the other in the order given, a space between them
RECURSIVE Spaced(_)
Spaced(texts) ==
    IF texts = <<>> THEN <<>>
    ELSE IF Len(texts) = 1 THEN texts[1]
    ELSE texts[1] \o <<" ">> \o Spaced(Tail(texts))

\* the data rows among the rows
DataRows(rows) == SelectSeq(rows, LAMBDA r : r # Header)

\* how many chunks of the record in input row rc this run has sent
SentCount(rc) ==
    Cardinality({c \in 1..Len(oracle_calls) : oracle_calls[c][1] = rc})

\* the run is between two chunks of the record in row rc
InCorrection(rc) == pc = "correct" /\ rc = row_count

\* the records this run has sent to the oracle without a failure and is done
\* with
Completed ==
    {rc \in 2..Len(InputRows) :
        SentCount(rc) > 0 /\ ~FailedAt(rc) /\ ~InCorrection(rc)}

\* C19 (per-record state machine): within a run the chunks of a record go to
\* the oracle one at a time in index order 1, 2, ..., each at most once, and
\* none after a failed one; a record the run is done with and none of whose
\* calls failed has had all its n chunks sent, as seen when its row is
\* written and again when the run has ended, and the run has added a row to
\* the sink for exactly these records; the row's text is the corrected chunks
\* in index order, joined and cleaned; so when the run has ended by itself
\* every record is in exactly one of SKIPPED (no chunk sent), FAILED (a call
\* failed, the last one sent) and COMMITTED (all n sent and succeeded).
C19_RecordStateMachine ==
    (Running \/ pc = "done") =>
        /\ \A c \in 1..Len(oracle_calls) :
              /\ oracle_calls[c][1] \in 2..row_count
              /\ oracle_calls[c][2] =
                    Cardinality({d \in 1..c : oracle_calls[d][1] = oracle_calls[c][1]})
              /\ ~oracle_calls[c][3] =>
                    \A d \in (c + 1)..Len(oracle_calls) :
                        oracle_calls[d][1] # oracle_calls[c][1]
        /\ pc = "write" => SentCount(row_count) = Len(ChunksOf(row_count))
        /\ pc = "done" =>
              \A rc \in 2..Len(InputRows) :
                  SentCount(rc) > 0 =>
                      IF FailedAt(rc) THEN SentCount(rc) <= Len(ChunksOf(rc))
                      ELSE SentCount(rc) = Len(ChunksOf(rc))
        /\ Len(DataRows(NewRows)) =
              Cardinality(Completed) - (IF pc = "write" THEN 1 ELSE 0)
        /\ pc \in {"write", "mark"} =>
              /\ row_count \in Completed
              /\ Len(AftersOfRecord) = SentCount(row_count)
              /\ \A j \in 1..Len(AftersOfRecord) : AftersOfRecord[j][2] = j
        /\ pc = "mark" =>
              Written[Len(Written)] =
                  << InputRows[row_count][1],
                     clean_newlines(Spaced([j \in 1..Len(AftersOfRecord) |->
                                               AftersOfRecord[j][4]])) >>

\* a record of three chunks has been committed after its chunks went to the
\* oracle in the order 1, 2, 3, and the oracle had changed the first of them
C19_Witness ==
    /\ pc = "mark"
    /\ SentFor(row_count) = <<1, 2, 3>>
    /\ Len(AftersOfRecord) = 3
    /\ AftersOfRecord[1][4] # text_chunks[1]
    /\ Written[Len(Written)][2] =
          clean_newlines(AftersOfRecord[1][4] \o <<" ">> \o AftersOfRecord[2][4]
                             \o <<" ">> \o AftersOfRecord[3][4])

\* the response as line 88 takes it, and its first n characters, n the length
\* of the chunk
Answer == strip(args.content, Whitespace)
Window == SubSeq(Answer, 1, Len(args.text_chunk))

\* the last place (counted from 1) of one of the marks in the window among
\* the places the test admits, 0 if there is none
LastMark(marks, admitted(_)) ==
    LET places == {q \in 1..Len(Window) : Window[q] \in marks /\ admitted(q)}
    IN  IF places = {} THEN 0
        ELSE CHOOSE q \in places : \A o \in places : o <= q

\* the response was longer than the chunk and call_chatgpt_api has returned
Truncated ==
    /\ fn = "call_chatgpt_api" /\ returned
    /\ Len(Answer) > Len(args.text_chunk)

\* C20 as the specification states it: if '.', '!' or '?' occurs in the last
\* fifth of the window, at a place q of 1..n with q > 0.8 n, the result ends
\* at the last such mark, and otherwise it is the window without surrounding
\* whitespace.
C20_SnapAtSentenceEnd ==
    Truncated =>
        LET q == LastMark({".", "!", "?"}, LAMBDA o : 10 * o > 8 * Len(Window))
        IN  IF q > 0 THEN ret = SubSeq(Window, 1, q)
            ELSE ret = strip(Window, Whitespace)

\* C20 (truncation snap), amended: the period is the only mark looked for, and
\* only the last period of the window counts. If more than 0.8 n characters
\* stand before it, the result ends at that period; otherwise, also when an
\* earlier period or a '!' stands in the last fifth, the result is the window
\* without surrounding whitespace.
C20_SnapAtLastPeriod ==
    Truncated =>
        LET q == LastMark({"."}, LAMBDA o : TRUE)
        IN  IF q > 0 /\ 10 * (q - 1) > 8 * Len(Window)
            THEN ret = SubSeq(Window, 1, q)
            ELSE ret = strip(Window, Whitespace)

\* the window of eleven characters has its last period at place ten and a '!'
\* after it, and the result ends at the period
C20_Witness ==
    /\ Truncated
    /\ Len(args.text_chunk) = 11
    /\ Window[10] = "." /\ Window[11] = "!"
    /\ ret = SubSeq(Window, 1, 10)

\* the first sequence is the beginning of the second
IsPrefix(old, new) == Len(old) <= Len(new) /\ SubSeq(new, 1, Len(old)) = old

\* One step: the sink and the checkpoint on disk keep what they hold, in
\* place; while a run goes on, the progress set and the rows handed to the
\* sink keep what they hold; and a step of a run that changes the progress
\* set is the commit of the run's current record, which adds its key alone,
\* after its row, and with its checkpoint line.
C23_GrowStep ==
    /\ IsPrefix(sink, sink') /\ IsPrefix(checkpoint, checkpoint')
    /\ (Running /\ pc' # "crashed") =>
          /\ all_processed_dates \subseteq all_processed_dates'
          /\ IsPrefix(Written, Written')
          /\ all_processed_dates' # all_processed_dates =>
                /\ pc = "mark"
                /\ all_processed_dates' = all_processed_dates \cup {date}
                /\ Written # <<>> /\ Written[Len(Written)][1] = date
                /\ checkpoint' = Append(checkpoint, date)

\* C23 (progress only grows): within a run the progress set never loses a
\* key, across runs the checkpoint and the sink are only appended to, every
\* line and row staying as it is and where it is, and a key enters the
\* progress set during a run only by the commit of its record.
C23_ProgressOnlyGrows == [][C23_GrowStep]_vars

\* a later run has found one key in the files of the run before and has
\* committed another: the progress set holds both, and the checkpoint still
\* begins with what the run found
C23_Witness ==
    /\ runs >= 2 /\ pc = "row"
    /\ Len(start.checkpoint) = 1 /\ Len(checkpoint) = 2
    /\ IsPrefix(start.checkpoint, checkpoint) /\ IsPrefix(start.sink, sink)
    /\ all_processed_dates = {checkpoint[1], checkpoint[2]}
    /\ checkpoint[1] # checkpoint[2]

\* The progression log of a run reads: the banner, then per record a start
\* marker, then BEFORE 1, AFTER 1, BEFORE 2, ... in index order, each AFTER
\* right behind its BEFORE, and a COMPLETE marker only behind the AFTER of the
\* last chunk; a new record starts only behind the banner, a COMPLETE marker
\* or the BEFORE of a chunk that failed.
C24_Grammar ==
    progression # <<>> =>
        /\ progression[1] = Banner
        /\ \A c \in 2..Len(progression) :
              LET cur == progression[c]
                  prev == progression[c - 1]
              IN  /\ cur # Banner
                  /\ cur[1] = "DATE" =>
                        /\ cur[3] >= 1
                        /\ prev = Banner \/ prev[1] \in {"COMPLETE", "BEFORE"}
                  /\ cur[1] = "BEFORE" =>
                        /\ cur[2] <= cur[3]
                        /\ IF cur[2] = 1
                           THEN prev[1] = "DATE" /\ prev[3] = cur[3]
                           ELSE /\ prev[1] = "AFTER"
                                /\ prev[2] = cur[2] - 1 /\ prev[3] = cur[3]
                  /\ cur[1] = "AFTER" =>
                        prev[1] = "BEFORE" /\ prev[2] = cur[2] /\ prev[3] = cur[3]
                  /\ cur[1] = "COMPLETE" =>
                        prev[1] = "AFTER" /\ prev[2] = prev[3]

\* One step.  The start of a run leaves the banner alone in the log.  Any
\* other step only appends: with an oracle call the BEFORE entry of its
\* chunk, and the AFTER entry with the corrected text if and only if the call
\* returned; without one either nothing, or the start marker of a record
\* that is neither no-data nor complete, or the COMPLETE marker of the record
\* whose row is the last one handed to the sink.  A pass of the loop that
\* skips a record appends nothing.
C24_Step ==
    IF runs' # runs
    THEN progression' = <<Banner>>
    ELSE LET added == SubSeq(progression', Len(progression) + 1, Len(progression'))
             called == Len(oracle_calls') > Len(oracle_calls)
             call == oracle_calls'[Len(oracle_calls')]
         IN  /\ IsPrefix(progression, progression')
             /\ called =>
                   /\ added # <<>>
                   /\ added[1] = <<"BEFORE", call[2], Len(text_chunks), text_chunks[call[2]]>>
                   /\ IF call[3]
                      THEN /\ Len(added) = 2
                           /\ added[2] = <<"AFTER", call[2], Len(text_chunks),
                                           processed_chunks'[call[2]]>>
                      ELSE Len(added) = 1 /\ pc' = "row"
             /\ ~called =>
                   \/ added = <<>>
                   \/ /\ pc = "row" /\ pc' = "correct"
                      /\ added = << <<"DATE", date', Len(text_chunks')>> >>
                      /\ date' = InputRows[row_count'][1]
                      /\ date' \notin all_processed_dates
                      /\ ~IsNoData(InputRows[row_count'][2])
                   \/ /\ pc = "mark"
                      /\ added = << <<"COMPLETE", date>> >>
                      /\ Written # <<>> /\ Written[Len(Written)][1] = date
             /\ (pc = "row" /\ pc' = "row") => added = <<>>

\* C24 (progression log structure): the log is truncated at the start of each
\* run; within the run a processed record has its start marker, then for each
\* chunk i = 1..n a BEFORE entry written with the oracle call for chunk i and
\* an AFTER entry once that call has returned, then a COMPLETE marker written
\* only after the record's row went to the sink; a record that fails on chunk
\* i has a BEFORE entry and no AFTER entry for chunk i and no COMPLETE marker;
\* a skipped record has no entries.
C24_LogStructure == [](C24_Grammar) /\ [][C24_Step]_vars

\* a second run has ended: its log starts with the banner, the first record
\* failed on its first chunk and the second was completed
C24_Witness ==
    /\ pc = "done" /\ runs = 2
    /\ Len(progression) = 7
    /\ progression[1] = Banner
    /\ progression[2][1] = "DATE" /\ progression[3][1] = "BEFORE"
    /\ progression[4][1] = "DATE" /\ progression[5][1] = "BEFORE"
    /\ progression[6][1] = "AFTER" /\ progression[7][1] = "COMPLETE"
    /\ FailedAt(2) /\ ~FailedAt(3)

\* C25 (no empty work): no chunk a run sends to the oracle is empty, and no
\* record is sent or committed whose text is empty once the padding of
\* brackets, quotes and spaces is stripped: a record whose text is padding
\* only is skipped like "[]".
C25_NoEmptyWork ==
    (Running \/ pc = "done") =>
        /\ \A c \in 1..Len(progression) :
              progression[c][1] = "BEFORE" => progression[c][4] # <<>>
        /\ \A c \in 1..Len(oracle_calls) :
              strip(InputRows[oracle_calls[c][1]][2], Padding) # <<>>
        /\ pc \in {"write", "mark"} =>
              strip(InputRows[row_count][2], Padding) # <<>>

\* C27 (bounding never invents content): whatever the chunk and the response,
\* what call_chatgpt_api returns is a beginning of the response stripped of
\* surrounding whitespace, and it is that whole stripped response whenever
\* the stripped response is no longer than the chunk.
C27_PrefixOfResponse ==
    (fn = "call_chatgpt_api" /\ returned) =>
        /\ IsPrefix(ret, Answer)
        /\ Len(Answer) <= Len(args.text_chunk) => ret = Answer

\* the response had surrounding whitespace and was longer than the chunk, the
\* cut fell behind a space, and what was returned is the beginning of the
\* stripped response up to that space
C27_Witness ==
    /\ fn = "call_chatgpt_api" /\ returned
    /\ Len(args.content) > Len(Answer)
    /\ Len(Answer) > Len(args.text_chunk)
    /\ Len(args.text_chunk) >= 3
    /\ Window[Len(Window)] = " "
    /\ ret = SubSeq(Answer, 1, Len(args.text_chunk) - 1)

\* C17 (oracle client single-shot): a call of call_chatgpt_api invokes the
\* oracle exactly once; when the oracle answers it returns the text, no longer
\* than the chunk, and when the call fails it returns nothing and raises
\* RuntimeError, the kind the except clause of process_file catches.
C17_SingleShot ==
    (fn = "call_chatgpt_api" /\ (returned \/ raised # "none")) =>
        /\ invocations = 1
        /\ args.error = "none" =>
              returned /\ raised = "none" /\ Len(ret) <= Len(args.text_chunk)
        /\ args.error # "none" =>
              ~returned /\ ret = <<>> /\ raised = "RuntimeError" /\ handled(raised)

\* the API call failed: one invocation, RuntimeError raised, nothing returned
C17_Witness ==
    /\ fn = "call_chatgpt_api" /\ args.error = "APIError"
    /\ invocations = 1 /\ raised = "RuntimeError" /\ ~returned

\* the pipeline's variables while a single function is under check
PipelineIdle ==
    /\ source = <<>> /\ sample_limit = <<>>
    /\ sink = <<>> /\ sink_exists = FALSE /\ outfile = <<>>
    /\ checkpoint = <<>> /\ progression = <<>> /\ stdout = <<>>
    /\ pc = "function" /\ runs = 0
    /\ row_count = 0 /\ all_processed_dates = {} /\ date = <<>>
    /\ text_chunks = <<>> /\ processed_chunks = <<>>
    /\ oracle_calls = <<>> /\ start = [sink |-> <<>>, checkpoint |-> <<>>]
    /\ last_run = "none" /\ abandoned = {} /\ torn = {}

pipeline == <<config, files, pc, runs, locals, history>>


(***************************************************************************)
(* SpecSplit: split_text_to_chunks applied to every text over a small      *)
(* alphabet and every limit.                                               *)
(***************************************************************************)
SplitAlphabet == {"a", "b", " "}

InitSplit ==
    /\ fn = "split_text_to_chunks"
    /\ args \in [text : SeqsUpTo(SplitAlphabet, MaxTextLen), limit : 1..MaxLimit]
    /\ returned = FALSE
    /\ ret = <<>>
    /\ raised = "none" /\ invocations = 0
    /\ attempt = 0 /\ events = <<>>
    /\ PipelineIdle

CallSplit ==
    /\ fn = "split_text_to_chunks"
    /\ ~returned
    /\ returned' = TRUE
    /\ ret' = split_text_to_chunks(args.text, args.limit)
    /\ UNCHANGED <<fn, args, raised, invocations, attempt, events, pipeline>>

(***************************************************************************)
(* SpecApi: call_chatgpt_api for every chunk length, on an oracle call that *)
(* answers, for every response of letters with a few marks and spaces, and *)
(* on one that fails.                                                      *)
(***************************************************************************)
ApiMarks == {".", "!", " "}

\* what goes wrong inside the try block of lines 76-102: the API call raises,
\* or the response has no content and .strip() raises
ApiErrors == {"APIError", "AttributeError"}

\* an except clause that passes the exception on as it is
wrap_error_reraised(kind) == kind

\* lines 104-105: except Exception as e: raise RuntimeError(...)
wrap_error(kind) == "RuntimeError"

\* the texts of length len made of "a" with at most MaxMarks other characters
Marked(len) ==
    LET places == {m \in SeqsUpTo((1..len) \X ApiMarks, MaxMarks) :
                      \A j \in 1..(Len(m) - 1) : m[j][1] < m[j + 1][1]}
    IN  {[i \in 1..len |->
             IF \E j \in 1..Len(m) : m[j][1] = i
             THEN m[CHOOSE j \in 1..Len(m) : m[j][1] = i][2]
             ELSE "a"] : m \in places}

Letters(len) == [i \in 1..len |-> "a"]

\* the responses by length
Responses == [k \in 0..(MaxChunkLen + MaxExtra) |-> Marked(k)]

InitApi ==
    /\ fn = "call_chatgpt_api"
    /\ \/ \E n \in 0..MaxChunkLen : \E k \in 0..(n + MaxExtra) : \E r \in Responses[k] :
             args = [text_chunk |-> Letters(n), content |-> r, error |-> "none"]
       \/ \E n \in 0..MaxChunkLen : \E kind \in ApiErrors :
             args = [text_chunk |-> Letters(n), content |-> <<>>, error |-> kind]
    /\ returned = FALSE
    /\ ret = <<>>
    /\ raised = "none" /\ invocations = 0
    /\ attempt = 0 /\ events = <<>>
    /\ PipelineIdle

\* lines 76-105: one call of client.chat.completions.create; its answer is
\* bounded and returned, its failure raised anew
CallApi ==
    /\ fn = "call_chatgpt_api"
    /\ ~returned /\ raised = "none"
    /\ invocations' = invocations + 1
    /\ IF args.error = "none"
       THEN /\ returned' = TRUE
            /\ ret' = call_chatgpt_api(args.text_chunk, args.content)
            /\ UNCHANGED raised
       ELSE /\ raised' = wrap_error(args.error)
            /\ UNCHANGED <<returned, ret>>
    /\ UNCHANGED <<fn, args, attempt, events, pipeline>>

SpecSplit == InitSplit /\ [][CallSplit]_vars

SpecApi == InitApi /\ [][CallApi]_vars

(***************************************************************************)
(* SpecClean: lines 218-220 of process_file, the corrected chunks joined   *)
(* and passed through clean_newlines, for every one or two chunks over a   *)
(* small alphabet; then clean_newlines applied to its own result.          *)
(***************************************************************************)
CleanAlphabet == {"a", " ", "\n", "\r"}

InitClean ==
    /\ fn = "clean_newlines"
    /\ \E text \in SeqsUpTo(CleanAlphabet, MaxTextLen) :
          \/ args = [processed_chunks |-> <<text>>]
          \/ \E cut \in 0..Len(text) :
                args = [processed_chunks |->
                           <<SubSeq(text, 1, cut), SubSeq(text, cut + 1, Len(text))>>]
    /\ returned = FALSE
    /\ ret = <<>>
    /\ raised = "none" /\ invocations = 0
    /\ attempt = 0 /\ events = <<>>
    /\ PipelineIdle

\* lines 218-220: final_text = clean_newlines(' '.join(processed_chunks))
CallClean ==
    /\ fn = "clean_newlines"
    /\ invocations = 0
    /\ invocations' = 1
    /\ returned' = TRUE
    /\ ret' = clean_newlines(join(args.processed_chunks))
    /\ UNCHANGED <<fn, args, raised, attempt, events, pipeline>>

\* clean_newlines called on what it has returned; the first result is kept
\* for comparison
CallCleanAgain ==
    /\ fn = "clean_newlines"
    /\ invocations = 1
    /\ invocations' = 2
    /\ events' = <<ret>>
    /\ ret' = clean_newlines(ret)
    /\ UNCHANGED <<fn, args, returned, raised, attempt, pipeline>>

SpecClean == InitClean /\ [][CallClean \/ CallCleanAgain]_vars

\* C22 (committed text is normalized): the text process_file writes, the
\* corrected chunks joined with single spaces and passed through
\* clean_newlines, has no line feed and no carriage return, no two spaces in
\* a row and no space at either end, whatever the chunks hold; and
\* clean_newlines applied to its own result changes nothing.
C22_Normalized ==
    (fn = "clean_newlines" /\ returned) =>
        /\ \A i \in 1..Len(ret) : ret[i] \notin {"\n", "\r"}
        /\ \A i \in 1..(Len(ret) - 1) : ~(ret[i] = " " /\ ret[i + 1] = " ")
        /\ ret # <<>> => ret[1] # " " /\ ret[Len(ret)] # " "
        /\ invocations = 2 => ret = events[1]

\* two chunks that end and start with spaces and hold a line feed and three
\* spaces in a row were joined and cleaned, and cleaned again
C22_Witness ==
    /\ fn = "clean_newlines" /\ invocations = 2
    /\ args.processed_chunks = << <<"a", " ">>, <<" ", " ", "\n", "a">> >>
    /\ ret = <<"a", " ", "a">>

(***************************************************************************)
(* SpecQuery: generate_query of Generate_Query.py, one step per oracle     *)
(* call and per sleep, for every max_retries from -1 up and every outcome  *)
(* of every call.  What it returns is <<text>>, or <<>> for None.          *)
(***************************************************************************)
MaxRetries == 3

\* line 62: time.sleep(5)
RETRY_DELAY == 5

\* line 61
Sentinel == << "E", "r", "r", "o", "r", " ", "g", "e", "n", "e", "r", "a", "t",
               "i", "n", "g", " ", "q", "u", "e", "r", "y" >>

Prompts == { <<"p">>, <<"p", "p">> }

\* the content of a response: a question, one with surrounding whitespace, an
\* empty one, another question
QueryResponses == { <<"q", "?">>, <<" ", "q", "?", "\n">>, <<>>, <<"w", "?">> }

\* what the try block of lines 47-57 can raise: the API call fails, or the
\* response has no content and .strip() raises
QueryErrors == {"APIError", "AttributeError"}

\* a test that never finds the last attempt
last_attempt_never(i, max_retries) == FALSE

\* line 59: attempt == max_retries - 1
last_attempt(i, max_retries) == i = max_retries - 1

InitQuery ==
    /\ fn = "generate_query"
    /\ args \in [prompt : Prompts, max_retries : (-1)..MaxRetries]
    /\ returned = FALSE
    /\ ret = <<>>
    /\ raised = "none" /\ invocations = 0
    /\ attempt = 0 /\ events = <<>>
    /\ PipelineIdle

\* the loop stands at the head of its body: nothing done yet, or the sleep
\* of the pass before is over
AtLoopHead == IF events = <<>> THEN TRUE ELSE events[Len(events)][1] = "sleep"

\* lines 46-61: one pass of the loop up to the return or the sleep
QueryAttempt ==
    /\ fn = "generate_query" /\ ~returned
    /\ AtLoopHead
    /\ attempt < args.max_retries
    /\ invocations' = invocations + 1
    /\ \/ \E content \in QueryResponses :
             /\ events' = Append(events, <<"answer", attempt, content>>)
             /\ returned' = TRUE
             /\ ret' = <<strip(content, Whitespace)>>
             /\ UNCHANGED stdout
       \/ \E kind \in QueryErrors :
             /\ events' = Append(events, <<kind, attempt>>)
             /\ IF last_attempt(attempt, args.max_retries)
                THEN /\ stdout' = Append(stdout, <<"Error after", args.max_retries, kind>>)
                     /\ returned' = TRUE
                     /\ ret' = <<Sentinel>>
                ELSE UNCHANGED <<stdout, returned, ret>>
    /\ UNCHANGED <<fn, args, raised, attempt, config, sink, sink_exists, outfile,
                   checkpoint, progression, pc, runs, locals, history>>

\* line 62 and the next value of range(max_retries)
QuerySleep ==
    /\ fn = "generate_query" /\ ~returned
    /\ ~AtLoopHead
    /\ events' = Append(events, <<"sleep", RETRY_DELAY>>)
    /\ attempt' = attempt + 1
    /\ UNCHANGED <<fn, args, returned, ret, raised, invocations, pipeline>>

\* the end of the function: range(max_retries) has no value left and the
\* function returns None
QueryFallsOff ==
    /\ fn = "generate_query" /\ ~returned
    /\ AtLoopHead
    /\ attempt >= args.max_retries
    /\ returned' = TRUE
    /\ ret' = <<>>
    /\ UNCHANGED <<fn, args, raised, invocations, attempt, events, pipeline>>

NextQuery == QueryAttempt \/ QuerySleep \/ QueryFallsOff

SpecQuery == InitQuery /\ [][NextQuery]_vars

\* the events that are oracle calls, and those of them that failed
IsCall(e) == events[e][1] # "sleep"
IsFailure(e) == events[e][1] \in QueryErrors

\* C21 (query retry policy): generate_query calls the oracle at most
\* max_retries times; an answer ends it at once and is what it returns
\* (stripped of surrounding whitespace); a sleep of the fixed delay comes only
\* after a failed call that is not the last one allowed and is followed by the
\* next call, so never after the last attempt; after max_retries failed calls
\* it has returned "Error generating query", and no exception leaves it.
C21_RetryPolicy ==
    fn = "generate_query" =>
        /\ raised = "none"
        /\ invocations = Cardinality({e \in 1..Len(events) : IsCall(e)})
        /\ invocations > 0 => invocations <= args.max_retries
        /\ \A e \in 1..Len(events) :
              /\ events[e][1] = "answer" =>
                    /\ e = Len(events) /\ returned
                    /\ ret = <<strip(events[e][3], Whitespace)>>
              /\ events[e][1] = "sleep" =>
                    /\ events[e][2] = RETRY_DELAY
                    /\ e > 1 /\ IsFailure(e - 1)
                    /\ events[e - 1][2] < args.max_retries - 1
                    /\ ~returned \/ e < Len(events)
              /\ (IsCall(e) /\ e < Len(events)) =>
                    IsFailure(e) /\ events[e + 1][1] = "sleep"
              /\ IsCall(e) =>
                    events[e][2] = Cardinality({d \in 1..(e - 1) : IsCall(d)})
        /\ (invocations > 0 /\ invocations = args.max_retries
                /\ IsFailure(Len(events))) =>
              /\ returned /\ ret = <<Sentinel>>
              /\ stdout # <<>>
        /\ (returned /\ ret = <<Sentinel>>) =>
              invocations = args.max_retries /\ IsFailure(Len(events))

\* three calls allowed and all three failed: two sleeps, none after the third
\* call, and the sentinel returned
C21_Witness ==
    /\ fn = "generate_query" /\ returned
    /\ args.max_retries = 3 /\ invocations = 3
    /\ Len(events) = 5
    /\ IsFailure(1) /\ events[2] = <<"sleep", RETRY_DELAY>>
    /\ IsFailure(3) /\ events[4] = <<"sleep", RETRY_DELAY>>
    /\ IsFailure(5)
    /\ ret = <<Sentinel>>

\* C26 (generate_query always yields a string): whatever max_retries is, also
\* 0 or negative, and however the oracle calls end, what generate_query
\* returns is a response of the oracle or "Error generating query", never
\* None.
C26_AlwaysAString ==
    (fn = "generate_query" /\ returned) =>
        /\ ret # <<>>
        /\ \/ ret = <<Sentinel>>
           \/ \E content \in QueryResponses : ret = <<strip(content, Whitespace)>>

=============================================================================
